---------------------------- MODULE Spec2Model ----------------------------
(***************************************************************************)
(* Donation contract (src/src/donate/assembly/index.ts).                   *)
(*                                                                         *)
(* The contract keeps an owner and a balance in key-value storage and a    *)
(* set of donation records.  send_donation and withdraw_donations each     *)
(* schedule an external call chained to a callback of this contract; the   *)
(* callback runs in a later receipt with the status of the external call.  *)
(*                                                                         *)
(* Amounts are in a scaled unit (ONE_NEAR stands for 10^24 yocto).  Every  *)
(* amount of the model stays far below 2^128, where u128.add is exact; a   *)
(* u128.sub result below zero stands for an underflow.                     *)
(* Account ids are sequences of their dot-separated segments.              *)
(*                                                                         *)
(* Specifications:                                                         *)
(*   Spec           every method, callbacks also invoked by other accounts *)
(*   SpecScheduled  callbacks run by the contract's own chains only        *)
(*   SpecAudited    SpecScheduled with the totals of what was received     *)
(*   SpecViews      SpecScheduled with the view methods                    *)
(*   SpecAnyStatus  callbacks run with every promise status                *)
(*   SpecFair       a fair call scheduler                                  *)
(***************************************************************************)
EXTENDS Integers, Sequences, FiniteSets, Bags, TLC

(* ------------------------------ bounds -------------------------------- *)
MaxAmount == 2       \* largest deposit and largest amount argument
MaxTime == 2         \* last block timestamp
MaxFlows == 3        \* promise chains started in one run, by anyone

(* ------------------- constants of ../../utils ------------------------- *)
ONE_NEAR == 1
PLATFORM_FEE_DIVISOR == 2
MIN_ACCOUNT_BALANCE == 3 * ONE_NEAR
MIN_DONATION_AMOUNT == ONE_NEAR
MIN_WITHDRAWAL_AMOUNT == ONE_NEAR

OWNER_STORAGE_KEY == "o"
BALANCE_STORAGE_KEY == "b"

(* ----------------------------- accounts ------------------------------- *)
contractName == <<"myorg", "donate", "near">>
OrgAccount == <<"myorg", "near">>
DonorAccount == <<"donor", "near">>
BadAccount == <<"">>

\* the predecessor of an invocation that does not read it
Anyone == <<>>

Callers == {OrgAccount, DonorAccount}
Donors == {DonorAccount}
OwnerArgs == {OrgAccount, DonorAccount, BadAccount}
Stakes == {MIN_ACCOUNT_BALANCE - 1, MIN_ACCOUNT_BALANCE}
Deposits == 0..MaxAmount
WithdrawArgs == 0..MaxAmount
ForeignAmounts == {MIN_WITHDRAWAL_AMOUNT}

\* env.isValidAccountID: every segment of the id is non-empty
isValidAccountID(a) == Len(a) > 0 /\ \A i \in 1..Len(a) : a[i] # ""

u128_add(a, b) == a + b
u128_sub(a, b) == a - b
\* a division that rounds up
u128_div_rounding_up(a, b) == (a + b - 1) \div b
u128_div(a, b) == a \div b

(* ------------------------------ state --------------------------------- *)
VARIABLES
    storage,      \* key-value storage: key -> <<>> (absent) or <<value>>
    donations,    \* PersistentSet<Donation>
    promises,     \* promise chains scheduled by the contract, callback not yet run
    now,          \* context.blockTimestamp of the current block
    flows,        \* number of promise chains started so far
    credited,     \* total added to the balance by Success on_donation_sent
    transferred,  \* total of the transfers to the owner that succeeded
    retained,     \* audit: total of the deposits attached to accepted
                  \* send_donation calls, less the fees attached to their
                  \* deposit_fees calls
    settled,      \* audit: {donor, amount, block time} of the send_donation
                  \* calls whose fee-forward call succeeded
    last          \* the most recent invocation and its outcome

vars == <<storage, donations, promises, now, flows, credited, transferred,
          retained, settled, last>>

hasKey(k) == storage[k] # <<>>
getSome(k) == storage[k][1]

is_initialized == hasKey(OWNER_STORAGE_KEY) /\ hasKey(BALANCE_STORAGE_KEY)

\* the same reads on a storage value st (the storage of an earlier state)
InitializedIn(st) == st[OWNER_STORAGE_KEY] # <<>> /\ st[BALANCE_STORAGE_KEY] # <<>>
BalanceIn(st) == st[BALANCE_STORAGE_KEY][1]
OwnerIn(st) == st[OWNER_STORAGE_KEY][1]

is_owner(predecessor) == storage[OWNER_STORAGE_KEY] = <<predecessor>>

get_balance == getSome(BALANCE_STORAGE_KEY)
get_owner == getSome(OWNER_STORAGE_KEY)

get_factory == Tail(contractName)

Donation(sender, amount, timestamp) ==
    [sender |-> sender, amount |-> amount, timestamp |-> timestamp]

\* The outcome of one invocation: the method, its predecessor, the attached
\* deposit or amount argument, the promise results it read, the chain it
\* started or resumed (<<>> if none), the error it aborted with ("" if it
\* completed), the value it returned (<<>> if none) and the ledger as it was
\* when the invocation began.
Invocation(method, predecessor, amount, results, flow, error) ==
    [method |-> method, predecessor |-> predecessor, amount |-> amount,
     results |-> results, flow |-> flow, ok |-> (error = ""), error |-> error,
     returned |-> <<>>,
     pre |-> [storage |-> storage, donations |-> donations, promises |-> promises]]

Init ==
    /\ storage = [o |-> <<>>, b |-> <<>>]
    /\ donations = {}
    /\ promises = EmptyBag
    /\ now = 0
    /\ flows = 0
    /\ credited = 0
    /\ transferred = 0
    /\ retained = 0
    /\ settled = {}
    /\ last = [method |-> "deploy", predecessor |-> contractName, amount |-> 0,
               results |-> <<>>, flow |-> <<>>, ok |-> TRUE, error |-> "",
               returned |-> <<>>,
               pre |-> [storage |-> [o |-> <<>>, b |-> <<>>], donations |-> {},
                        promises |-> EmptyBag]]

(* ------------------------------ init ---------------------------------- *)
\* init without its first assertion
init_error_reinit(owner, attachedDeposit) ==
    IF ~(attachedDeposit >= MIN_ACCOUNT_BALANCE)
         THEN "Minimum account balance must be attached to initialize this contract (3 NEAR)"
    ELSE IF ~isValidAccountID(owner)
         THEN "Owner account must have valid NEAR account name"
    ELSE ""

init_error(owner, attachedDeposit) ==
    IF is_initialized THEN "Contract is already initialized."
    ELSE IF ~(attachedDeposit >= MIN_ACCOUNT_BALANCE)
         THEN "Minimum account balance must be attached to initialize this contract (3 NEAR)"
    ELSE IF ~isValidAccountID(owner)
         THEN "Owner account must have valid NEAR account name"
    ELSE ""

init(owner, attachedDeposit) ==
    LET error == init_error(owner, attachedDeposit) IN
    /\ storage' = IF error = ""
                  THEN [o |-> <<owner>>, b |-> <<0>>]
                  ELSE storage
    /\ last' = Invocation("init", Anyone, attachedDeposit, <<>>, <<>>, error)
    /\ UNCHANGED <<donations, promises, now, flows, credited, transferred>>

(* -------------------------- send_donation ----------------------------- *)
\* send_donation without its first assertion
send_donation_error_ungated(attachedDeposit) ==
    IF ~(attachedDeposit >= MIN_DONATION_AMOUNT)
         THEN "Minimum donation must be attached (1 NEAR)"
    ELSE ""

send_donation_error(attachedDeposit) ==
    IF ~is_initialized THEN "Contract must be initialized first."
    ELSE IF ~(attachedDeposit >= MIN_DONATION_AMOUNT)
         THEN "Minimum donation must be attached (1 NEAR)"
    ELSE ""

\* send_donation passing the whole deposit to its callback
DonationPromise_gross(predecessor, attachedDeposit) ==
    LET feeAmount == u128_div(attachedDeposit, PLATFORM_FEE_DIVISOR)
    IN  [receiver |-> get_factory, action |-> "deposit_fees", attached |-> feeAmount,
         callback |-> "on_donation_sent", args |-> attachedDeposit,
         callbackDeposit |-> 0,
         caller |-> predecessor, deposit |-> attachedDeposit, created |-> now,
         balanceBefore |-> 0]

\* send_donation chaining the callback of withdraw_donations
DonationPromise_wrong_callback(predecessor, attachedDeposit) ==
    LET feeAmount == u128_div(attachedDeposit, PLATFORM_FEE_DIVISOR)
        donationAmount == u128_sub(attachedDeposit, feeAmount)
    IN  [receiver |-> get_factory, action |-> "deposit_fees", attached |-> feeAmount,
         callback |-> "on_donations_withdrawn", args |-> donationAmount,
         callbackDeposit |-> 0,
         caller |-> predecessor, deposit |-> attachedDeposit, created |-> now,
         balanceBefore |-> 0]

\* the promise chain of send_donation: deposit_fees on the factory with the
\* fee attached, then on_donation_sent(donationAmount) on this contract.
\* caller, deposit and created remember the call that scheduled the chain.
DonationPromise(predecessor, attachedDeposit) ==
    LET feeAmount == u128_div(attachedDeposit, PLATFORM_FEE_DIVISOR)
        donationAmount == u128_sub(attachedDeposit, feeAmount)
    IN  [receiver |-> get_factory, action |-> "deposit_fees", attached |-> feeAmount,
         callback |-> "on_donation_sent", args |-> donationAmount,
         callbackDeposit |-> 0,
         caller |-> predecessor, deposit |-> attachedDeposit, created |-> now,
         balanceBefore |-> 0]

send_donation(predecessor, attachedDeposit) ==
    LET error == send_donation_error(attachedDeposit) IN
    /\ error = "" => flows < MaxFlows /\ now < MaxTime
    /\ flows' = IF error = "" THEN flows + 1 ELSE flows
    /\ promises' = IF error = ""
                   THEN promises (+) SetToBag({DonationPromise(predecessor, attachedDeposit)})
                   ELSE promises
    /\ last' = Invocation("send_donation", predecessor, attachedDeposit, <<>>,
                        IF error = "" THEN <<DonationPromise(predecessor, attachedDeposit)>>
                        ELSE <<>>, error)
    /\ UNCHANGED <<storage, donations, now, credited, transferred>>

(* ------------------------- on_donation_sent --------------------------- *)
\* results is ContractPromise.getResults(): the statuses of the promises this
\* receipt depends on; flow is the chain being resumed (<<>> if none is)
\* the switch of on_donation_sent with the credit under case 2 as well
credits_failed_too(status) == status \in {1, 2}

\* the switch of on_donation_sent: only case 1 credits the balance
credits(status) == status = 1

\* results[0] needs a promise result; the credit reads get_balance
on_donation_sent_error(results, status) ==
    IF Len(results) = 0 THEN "Index out of range"
    ELSE IF credits(status) /\ ~is_initialized THEN "Contract must be initialized first."
    ELSE ""

on_donation_sent(predecessor, amount, results, flow) ==
    LET status == IF Len(results) = 0 THEN -1 ELSE results[1]
        error == on_donation_sent_error(results, status)
        success == error = "" /\ credits(status)
    IN
    /\ storage' = IF success
                  THEN [storage EXCEPT ![BALANCE_STORAGE_KEY] =
                            <<u128_add(get_balance, amount)>>]
                  ELSE storage
    /\ donations' = IF success
                    THEN donations \cup {Donation(predecessor, amount, now)}
                    ELSE donations
    /\ credited' = IF success THEN credited + amount ELSE credited
    /\ last' = Invocation("on_donation_sent", predecessor, amount, results, flow, error)
    /\ UNCHANGED <<now, transferred>>

(* ------------------------ withdraw_donations -------------------------- *)
\* withdraw_donations without assert_signed_by_owner
withdraw_donations_error_anyone(predecessor, amount) ==
    IF ~is_initialized THEN "Contract must be initialized first."
    ELSE IF ~(amount >= MIN_WITHDRAWAL_AMOUNT)
         THEN "Attempting to withdraw less than minimum amount (1 NEAR)"
    ELSE IF ~(amount <= get_balance)
         THEN "Attempting to withdraw more than donation balance."
    ELSE ""

\* withdraw_donations without the comparison of amount with the balance
withdraw_donations_error_overdraw(predecessor, amount) ==
    IF ~is_initialized THEN "Contract must be initialized first."
    ELSE IF ~is_owner(predecessor) THEN "Must be called by owner."
    ELSE IF ~(amount >= MIN_WITHDRAWAL_AMOUNT)
         THEN "Attempting to withdraw less than minimum amount (1 NEAR)"
    ELSE ""

withdraw_donations_error(predecessor, amount) ==
    IF ~is_initialized THEN "Contract must be initialized first."
    ELSE IF ~is_owner(predecessor) THEN "Must be called by owner."
    ELSE IF ~(amount >= MIN_WITHDRAWAL_AMOUNT)
         THEN "Attempting to withdraw less than minimum amount (1 NEAR)"
    ELSE IF ~(amount <= get_balance)
         THEN "Attempting to withdraw more than donation balance."
    ELSE ""

WithdrawalPromise(owner, amount) ==
    [receiver |-> owner, action |-> "transfer", attached |-> amount,
     callback |-> "on_donations_withdrawn", args |-> amount,
     callbackDeposit |-> 0,
     caller |-> owner, deposit |-> 0, created |-> now,
     balanceBefore |-> get_balance]

withdraw_donations(predecessor, amount) ==
    LET error == withdraw_donations_error(predecessor, amount) IN
    /\ error = "" => flows < MaxFlows /\ now < MaxTime
    /\ flows' = IF error = "" THEN flows + 1 ELSE flows
    /\ storage' = IF error = ""
                  THEN [storage EXCEPT ![BALANCE_STORAGE_KEY] =
                            <<u128_sub(get_balance, amount)>>]
                  ELSE storage
    /\ promises' = IF error = ""
                   THEN promises (+) SetToBag({WithdrawalPromise(predecessor, amount)})
                   ELSE promises
    /\ last' = Invocation("withdraw_donations", predecessor, amount, <<>>,
                        IF error = "" THEN <<WithdrawalPromise(predecessor, amount)>>
                        ELSE <<>>, error)
    /\ UNCHANGED <<donations, now, credited, transferred>>

(* ---------------------- on_donations_withdrawn ------------------------ *)
\* the switch of on_donations_withdrawn with the restore under case 1 as well
restores_succeeded_too(status) == status \in {1, 2}

\* the switch of on_donations_withdrawn with the restore under case 1 instead
restores_swapped(status) == status = 1

\* everything but success restores
restores_unless_success(status) == status # 1

\* the switch of on_donations_withdrawn: only case 2 restores the debit
restores(status) == status = 2

\* results[0] needs a promise result; the restore reads get_balance
on_donations_withdrawn_error(results, status) ==
    IF Len(results) = 0 THEN "Index out of range"
    ELSE IF restores(status) /\ ~is_initialized THEN "Contract must be initialized first."
    ELSE ""

on_donations_withdrawn(predecessor, amount, results, flow) ==
    LET status == IF Len(results) = 0 THEN -1 ELSE results[1]
        error == on_donations_withdrawn_error(results, status)
        failed == error = "" /\ restores(status)
    IN
    /\ storage' = IF failed
                  THEN [storage EXCEPT ![BALANCE_STORAGE_KEY] =
                            <<u128_add(get_balance, amount)>>]
                  ELSE storage
    /\ last' = Invocation("on_donations_withdrawn", predecessor, amount, results, flow, error)
    /\ UNCHANGED <<donations, now, credited>>

(* ---------------------------- view methods ---------------------------- *)
\* no assertion at all
assert_nothing == ""

assert_contract_is_initialized ==
    IF ~is_initialized THEN "Contract must be initialized first." ELSE ""

\* The error a view method aborts with: its assertion, or else the failure of
\* storage.getSome on a key that is absent (<<>> stands for no key read).
view_error(key) ==
    IF assert_contract_is_initialized # "" THEN assert_contract_is_initialized
    ELSE IF key # <<>> /\ ~hasKey(key[1]) THEN "storage.getSome: key not found"
    ELSE ""

\* A view method reads the state and returns a value; it writes nothing.
view(method, key, value) ==
    LET error == view_error(key)
    IN  /\ last' = [Invocation(method, Anyone, 0, <<>>, <<>>, error)
                        EXCEPT !.returned = IF error = "" THEN <<value>> ELSE <<>>]
        /\ UNCHANGED <<storage, donations, promises, now, flows, credited, transferred>>

get_donations_view == view("get_donations", <<>>, donations)

get_owner_view ==
    view("get_owner", <<OWNER_STORAGE_KEY>>,
         IF hasKey(OWNER_STORAGE_KEY) THEN get_owner ELSE <<>>)

get_balance_view ==
    view("get_balance", <<BALANCE_STORAGE_KEY>>,
         IF hasKey(BALANCE_STORAGE_KEY) THEN get_balance ELSE 0)

(* --------------------------- call scheduler --------------------------- *)
\* the terminal statuses of an external call: 1 successful, 2 failed
TerminalStatuses == {1, 2}

\* The external call of chain p has settled with the given status in an
\* earlier block; its callback now runs as a receipt whose predecessor is
\* this contract.
Resume(p, status) ==
    /\ now > p.created
    /\ promises' = promises (-) SetToBag({p})
    /\ UNCHANGED flows
    /\ IF p.callback = "on_donation_sent"
       THEN on_donation_sent(contractName, p.args, <<status>>, <<p>>)
       ELSE /\ on_donations_withdrawn(contractName, p.args, <<status>>, <<p>>)
            /\ transferred' = IF status = 1 THEN transferred + p.attached
                              ELSE transferred

\* Another account invokes a callback itself: directly (no promise result),
\* or chained after a call of its own that ended with the given status.
ForeignResults == {<<>>, <<1>>, <<2>>}

ForeignDonationSent(predecessor, amount, results) ==
    /\ flows < MaxFlows
    /\ flows' = flows + 1
    /\ on_donation_sent(predecessor, amount, results, <<>>)
    /\ UNCHANGED promises

ForeignDonationsWithdrawn(predecessor, amount, results) ==
    /\ flows < MaxFlows
    /\ flows' = flows + 1
    /\ on_donations_withdrawn(predecessor, amount, results, <<>>)
    /\ UNCHANGED <<promises, transferred>>

\* A new block: the block in which the external calls scheduled in the
\* current one execute.  Blocks in which nothing is pending are skipped: block
\* times are only read into donation records and compared with "created".
Tick ==
    /\ now < MaxTime
    /\ \E p \in BagToSet(promises) : p.created = now
    /\ now' = now + 1
    /\ last' = Invocation("tick", Anyone, 0, <<>>, <<>>, "")
    /\ UNCHANGED <<storage, donations, promises, flows, credited, transferred>>

\* The audit totals are kept by Audited and left alone by Unaudited: they
\* record what the last invocation received and what it settled.
Unaudited == UNCHANGED <<retained, settled>>

Audited ==
    /\ retained' = IF last'.method = "send_donation" /\ last'.ok
                   THEN retained + last'.flow[1].deposit - last'.flow[1].attached
                   ELSE retained
    /\ settled' = IF /\ last'.method = "on_donation_sent" /\ last'.ok
                     /\ last'.flow # <<>> /\ last'.results = <<1>>
                  THEN settled \cup {Donation(last'.flow[1].caller, last'.flow[1].args,
                                              last'.flow[1].created)}
                  ELSE settled

Next ==
    \/ \E o \in OwnerArgs, d \in Stakes : init(o, d) /\ Unaudited
    \/ \E p \in Donors, d \in Deposits : send_donation(p, d) /\ Unaudited
    \/ \E p \in Callers, a \in WithdrawArgs : withdraw_donations(p, a) /\ Unaudited
    \/ \E p \in BagToSet(promises), s \in TerminalStatuses : Resume(p, s) /\ Unaudited
    \/ \E p \in {DonorAccount}, a \in ForeignAmounts, r \in ForeignResults :
           ForeignDonationSent(p, a, r) /\ Unaudited
    \/ \E p \in {DonorAccount}, a \in ForeignAmounts, r \in ForeignResults :
           ForeignDonationsWithdrawn(p, a, r) /\ Unaudited
    \/ Tick /\ Unaudited

Spec == Init /\ [][Next]_vars

\* The contract with the callbacks run by the call scheduler only.
NextScheduled ==
    \/ \E o \in OwnerArgs, d \in Stakes : init(o, d) /\ Unaudited
    \/ \E p \in Donors, d \in Deposits : send_donation(p, d) /\ Unaudited
    \/ \E p \in Callers, a \in WithdrawArgs : withdraw_donations(p, a) /\ Unaudited
    \/ \E p \in BagToSet(promises), s \in TerminalStatuses : Resume(p, s) /\ Unaudited
    \/ Tick /\ Unaudited

SpecScheduled == Init /\ [][NextScheduled]_vars

\* The same, with the audit totals kept.
NextAudited ==
    \/ \E o \in OwnerArgs, d \in Stakes : init(o, d) /\ Audited
    \/ \E p \in Donors, d \in Deposits : send_donation(p, d) /\ Audited
    \/ \E p \in Callers, a \in WithdrawArgs : withdraw_donations(p, a) /\ Audited
    \/ \E p \in BagToSet(promises), s \in TerminalStatuses : Resume(p, s) /\ Audited
    \/ Tick /\ Audited

SpecAudited == Init /\ [][NextAudited]_vars

\* The same as SpecScheduled, with the view methods called too.
NextViews ==
    \/ \E o \in OwnerArgs, d \in Stakes : init(o, d) /\ Unaudited
    \/ \E p \in Donors, d \in Deposits : send_donation(p, d) /\ Unaudited
    \/ \E p \in Callers, a \in WithdrawArgs : withdraw_donations(p, a) /\ Unaudited
    \/ \E p \in BagToSet(promises), s \in TerminalStatuses : Resume(p, s) /\ Unaudited
    \/ Tick /\ Unaudited
    \/ get_donations_view /\ Unaudited
    \/ get_owner_view /\ Unaudited
    \/ get_balance_view /\ Unaudited

SpecViews == Init /\ [][NextViews]_vars

\* Every status code a callback can read from a promise result: 0 pending,
\* 1 successful, 2 failed, 3 none of these.  The call scheduler runs the
\* callbacks with each of them; other accounts run them with the two that are
\* not terminal, initialized or not.
AnyStatuses == {0, 1, 2, 3}
NonTerminalResults == {<<s>> : s \in AnyStatuses \ TerminalStatuses}

NextAnyStatus ==
    \/ \E o \in OwnerArgs, d \in Stakes : init(o, d) /\ Unaudited
    \/ \E p \in Donors, d \in Deposits : send_donation(p, d) /\ Unaudited
    \/ \E p \in Callers, a \in WithdrawArgs : withdraw_donations(p, a) /\ Unaudited
    \/ \E p \in BagToSet(promises), s \in AnyStatuses : Resume(p, s) /\ Unaudited
    \/ \E p \in {DonorAccount}, a \in ForeignAmounts, r \in NonTerminalResults :
           ForeignDonationSent(p, a, r) /\ Unaudited
    \/ \E p \in {DonorAccount}, a \in ForeignAmounts, r \in NonTerminalResults :
           ForeignDonationsWithdrawn(p, a, r) /\ Unaudited
    \/ Tick /\ Unaudited

SpecAnyStatus == Init /\ [][NextAnyStatus]_vars

\* The contract under a fair call scheduler: blocks keep being produced while
\* external calls wait for one, and a callback whose external call has
\* resolved is eventually run (the runtime executes every receipt).  The
\* methods are called with the least amounts they accept.
NextFair ==
    \/ init(OrgAccount, MIN_ACCOUNT_BALANCE) /\ Unaudited
    \/ \E p \in Donors : send_donation(p, MIN_DONATION_AMOUNT) /\ Unaudited
    \/ \E p \in Callers : withdraw_donations(p, MIN_WITHDRAWAL_AMOUNT) /\ Unaudited
    \/ \E p \in BagToSet(promises), s \in TerminalStatuses : Resume(p, s) /\ Unaudited
    \/ Tick /\ Unaudited

SpecFair ==
    /\ Init
    /\ [][NextFair]_vars
    /\ WF_vars(Tick /\ Unaudited)
    /\ WF_vars(\E p \in BagToSet(promises), s \in TerminalStatuses :
                   Resume(p, s) /\ Unaudited)

(* ------------------------------ claims -------------------------------- *)
\* the chain the last invocation started or resumed
Flow == last.flow[1]
Resumed == last.flow # <<>>
PreBalance == BalanceIn(last.pre.storage)
LedgerUnchanged == storage = last.pre.storage /\ donations = last.pre.donations

\* C1: an init in a state that is already initialized fails, whatever its
\* owner argument and deposit, and leaves owner, balance and donations as
\* they were; right after an init that succeeded the balance is 0.
C1_InitExactlyOnce ==
    last.method = "init" =>
        /\ InitializedIn(last.pre.storage) => ~last.ok /\ LedgerUnchanged
        /\ last.ok => is_initialized /\ get_balance = 0

C1_Witness ==
    /\ last.method = "init"
    /\ InitializedIn(last.pre.storage)
    /\ last.amount >= MIN_ACCOUNT_BALANCE
    /\ ~last.ok

\* C2: once the owner is stored, no invocation changes it: the owner after
\* any invocation is the owner before it.
C2_OwnerImmutable ==
    InitializedIn(last.pre.storage) =>
        is_initialized /\ get_owner = OwnerIn(last.pre.storage)

C2_Witness ==
    /\ is_initialized
    /\ last.method = "on_donations_withdrawn"
    /\ Resumed
    /\ donations # {}

\* C3: the stored balance is never below zero, and every withdrawal that
\* debits it asked for no more than the balance held when it ran.
C3_BalanceNonNegative ==
    /\ is_initialized => get_balance >= 0
    /\ last.method = "withdraw_donations" /\ last.ok => last.amount <= PreBalance

C3_Witness ==
    /\ last.method = "withdraw_donations"
    /\ last.ok
    /\ get_balance = 0

\* C4: when on_donation_sent resumes a send_donation of deposit d with status
\* Success, the balance grows by exactly d - floor(d / PLATFORM_FEE_DIVISOR)
\* and the donations hold a record of that amount.
C4_SuccessCreditsNet ==
    last.method = "on_donation_sent" /\ Resumed /\ last.results = <<1>> =>
        LET d == Flow.deposit
            net == d - (d \div PLATFORM_FEE_DIVISOR)
        IN  /\ last.ok
            /\ get_balance = PreBalance + net
            /\ \E r \in donations : r.amount = net

C4_Witness ==
    /\ last.method = "on_donation_sent"
    /\ Resumed
    /\ last.results = <<1>>
    /\ Flow.attached > 0
    /\ PreBalance > 0

\* C5: the record added by a Success on_donation_sent names the account that
\* called send_donation as donor and carries the block time of that call.
C5_RecordOfOriginalCall ==
    last.method = "on_donation_sent" /\ Resumed /\ last.results = <<1>> =>
        Donation(Flow.caller, last.amount, Flow.created) \in donations

\* C6: on_donation_sent with status Failure leaves owner, balance and
\* donations as they were.
C6_FailureChangesNothing ==
    last.method = "on_donation_sent" /\ last.results = <<2>> => LedgerUnchanged

C6_Witness ==
    /\ last.method = "on_donation_sent"
    /\ Resumed
    /\ last.results = <<2>>
    /\ last.ok

\* C7: a withdraw_donations(amount) that succeeds lowers the balance by
\* exactly amount in that invocation and schedules the transfer of amount;
\* on_donations_withdrawn with status Success then changes nothing.
C7_DebitThenSuccessChangesNothing ==
    /\ last.method = "withdraw_donations" /\ last.ok =>
           /\ get_balance = PreBalance - last.amount
           /\ promises = last.pre.promises (+) SetToBag({Flow})
           /\ Flow.action = "transfer" /\ Flow.attached = last.amount
    /\ last.method = "on_donations_withdrawn" /\ last.results = <<1>> =>
           LedgerUnchanged

C7_Witness ==
    /\ last.method = "on_donations_withdrawn"
    /\ Resumed
    /\ last.results = <<1>>
    /\ get_balance = Flow.balanceBefore - Flow.args

\* C8 as stated: on_donations_withdrawn with status Failure leaves the balance
\* at the value it had just before the withdraw_donations it resumes,
\* whatever ran between the two.
C8_FailureRestoresPreWithdrawal ==
    last.method = "on_donations_withdrawn" /\ Resumed /\ last.results = <<2>> =>
        get_balance = Flow.balanceBefore

\* C8 as amended: on_donations_withdrawn with status Failure adds exactly
\* amount back to the balance it finds; that is the value before the
\* withdraw_donations when the balance was not changed between the two.
C8_FailureRestoresDebit ==
    last.method = "on_donations_withdrawn" /\ Resumed /\ last.results = <<2>> =>
        /\ last.ok
        /\ get_balance = PreBalance + last.amount
        /\ PreBalance = Flow.balanceBefore - Flow.args =>
               get_balance = Flow.balanceBefore

C8_Witness ==
    /\ last.method = "on_donations_withdrawn"
    /\ Resumed
    /\ last.results = <<2>>
    /\ get_balance = Flow.balanceBefore

\* C9: withdraw_donations is rejected when the contract is not initialized,
\* the caller is not the owner, amount is below the minimum or amount exceeds
\* the balance; the rejected call leaves owner, balance and donations as they
\* were and schedules nothing.
C9_WithdrawRejected ==
    last.method = "withdraw_donations" =>
        LET st == last.pre.storage
            refused == \/ ~InitializedIn(st)
                       \/ OwnerIn(st) # last.predecessor
                       \/ last.amount < MIN_WITHDRAWAL_AMOUNT
                       \/ last.amount > BalanceIn(st)
        IN  /\ refused => ~last.ok
            /\ ~last.ok => LedgerUnchanged /\ promises = last.pre.promises

C9_Witness ==
    /\ last.method = "withdraw_donations"
    /\ ~last.ok
    /\ is_initialized
    /\ get_owner # last.predecessor
    /\ last.amount >= MIN_WITHDRAWAL_AMOUNT
    /\ last.amount <= get_balance

\* the sum of the amounts of the transfers to the owner that are in flight
RECURSIVE SumTransfers(_)
SumTransfers(S) ==
    IF S = {} THEN 0
    ELSE LET p == CHOOSE x \in S : TRUE
         IN  (IF p.action = "transfer" THEN CopiesIn(p, promises) * p.attached ELSE 0)
             + SumTransfers(S \ {p})

InFlightTransfers == SumTransfers(BagToSet(promises))

\* C10: the transfers to the owner that are in flight or have succeeded never
\* add up to more than the total that Success donation callbacks credited.
C10_TransfersWithinCredits ==
    InFlightTransfers + transferred <= credited

\* C11: a callback takes effect only as the continuation of one of the
\* contract's own chains: an invocation of on_donation_sent or
\* on_donations_withdrawn that resumes no such chain (made by another account,
\* with an amount of its choosing) changes neither the Balance nor the
\* donation log.
C11_OnlyContinuationsTakeEffect ==
    last.method \in {"on_donation_sent", "on_donations_withdrawn"} /\ ~Resumed
        => LedgerUnchanged

\* C12: get_donations, get_owner and get_balance each fail with "Contract must
\* be initialized first." when the contract is not initialized; when it is,
\* they return the donation log, the Owner and the Balance as they are, and
\* in both cases leave the ledger and the scheduled chains unchanged.
C12_ViewsReadOnly ==
    last.method \in {"get_donations", "get_owner", "get_balance"} =>
        LET st == last.pre.storage
        IN  /\ LedgerUnchanged
            /\ promises = last.pre.promises
            /\ IF ~InitializedIn(st)
               THEN /\ ~last.ok
                    /\ last.error = "Contract must be initialized first."
                    /\ last.returned = <<>>
               ELSE /\ last.ok
                    /\ last.method = "get_donations"
                           => last.returned = <<last.pre.donations>>
                    /\ last.method = "get_owner" => last.returned = <<OwnerIn(st)>>
                    /\ last.method = "get_balance" => last.returned = <<BalanceIn(st)>>

C12_Witness ==
    /\ last.method = "get_donations"
    /\ last.ok
    /\ last.returned = <<donations>>
    /\ donations # {}
    /\ get_balance > 0

C12_WitnessUninitialized ==
    last.method = "get_balance" /\ ~last.ok /\ ~is_initialized

\* C13: the donation log is a set of full records: send_donation calls whose
\* fee-forward call succeeded leave one stored record for each distinct
\* {donor, amount, timestamp} among them; two such calls equal in all three
\* leave one record, two that differ in any of the three leave two.
C13_OneRecordPerDistinctDonation ==
    Cardinality(donations) = Cardinality(settled)

\* the same count with the stored records taken as they are: the log never
\* holds more than one record of a stored {sender, amount, timestamp}, and a
\* Success callback whose record is already stored does not grow it
C13_StoredRecordsAreASet ==
    last.method = "on_donation_sent" /\ last.ok /\ last.results = <<1>> =>
        LET r == Donation(last.predecessor, last.amount, now)
        IN  /\ donations = last.pre.donations \cup {r}
            /\ Cardinality(donations) = Cardinality(last.pre.donations)
                                            + (IF r \in last.pre.donations THEN 0 ELSE 1)

\* C14: at-most-once crediting: send_donation itself leaves the Owner, the
\* Balance and the donation log unchanged, and every on_donation_sent that
\* changes the ledger is the continuation of a send_donation call whose
\* fee-forward call resolved Success, credits that call's net amount and
\* takes the chain out of the scheduled ones, so that no call is credited
\* twice and there are never more credits than successful fee-forward calls.
C14_AtMostOnceCrediting ==
    /\ last.method = "send_donation" => LedgerUnchanged
    /\ last.method = "on_donation_sent" /\ ~LedgerUnchanged =>
           /\ Resumed
           /\ last.results = <<1>>
           /\ Flow.action = "deposit_fees"
           /\ CopiesIn(Flow, last.pre.promises) >= 1
           /\ promises = last.pre.promises (-) SetToBag({Flow})
           /\ get_balance = PreBalance + Flow.args

\* C15: a callback that reads the status Pending (0), or any status other than
\* Success (1) and Failure (2), completes and changes no state: neither
\* on_donation_sent nor on_donations_withdrawn touches the Owner, the Balance
\* or the donation log, and neither schedules anything.
C15_OtherStatusesChangeNothing ==
    /\ last.method \in {"on_donation_sent", "on_donations_withdrawn"}
    /\ last.results # <<>>
    /\ last.results[1] \notin TerminalStatuses
    => /\ last.ok
       /\ LedgerUnchanged
       /\ \A p \in BagToSet(promises) :
              CopiesIn(p, promises) <= CopiesIn(p, last.pre.promises)

\* a withdrawal's callback reads Pending: the debit of Phase 1 stays
C15_Witness ==
    /\ last.method = "on_donations_withdrawn"
    /\ Resumed
    /\ last.results = <<0>>
    /\ get_balance < Flow.balanceBefore

C15_WitnessDonation ==
    /\ last.method = "on_donation_sent"
    /\ Resumed
    /\ last.results = <<3>>
    /\ is_initialized

\* deposits of send_donation up to ten times the divisor
SplitDeposits == MIN_DONATION_AMOUNT .. (10 * PLATFORM_FEE_DIVISOR)

\* the fee split of a chain scheduled for deposit d
FeeSplit(p, d) ==
    /\ p.receiver = get_factory
    /\ p.action = "deposit_fees"
    /\ p.attached = d \div PLATFORM_FEE_DIVISOR
    /\ p.callback = "on_donation_sent"
    /\ p.args = d - p.attached
    /\ p.attached + p.args = d
    /\ p.attached * PLATFORM_FEE_DIVISOR <= d
    /\ d < (p.attached + 1) * PLATFORM_FEE_DIVISOR
    /\ p.attached >= 0 /\ p.args >= 0
    /\ p.callbackDeposit = 0

\* C16: for every deposit d >= MIN_DONATION_AMOUNT, send_donation attaches
\* fee = floor(d / PLATFORM_FEE_DIVISOR) to the fee-forward call and passes
\* net = d - fee to the continuation, with fee + net = d and
\* fee * PLATFORM_FEE_DIVISOR <= d; the continuation carries no attached value.
C16_FeeSplit ==
    /\ \A d \in SplitDeposits : FeeSplit(DonationPromise(DonorAccount, d), d)
    /\ last.method = "send_donation" /\ last.ok =>
           /\ last.amount >= MIN_DONATION_AMOUNT
           /\ FeeSplit(Flow, last.amount)
           /\ CopiesIn(Flow, promises) = CopiesIn(Flow, last.pre.promises) + 1

\* a deposit the divisor does not divide: the fee is rounded down
C16_Witness ==
    /\ last.method = "send_donation"
    /\ last.ok
    /\ last.amount % PLATFORM_FEE_DIVISOR # 0
    /\ Flow.attached * PLATFORM_FEE_DIVISOR < last.amount
    /\ CopiesIn(Flow, promises) >= 1

\* the chains of one method that were scheduled in block t and whose
\* callback has not run yet
Initiated(action, t) ==
    \E p \in BagToSet(promises) : p.action = action /\ p.created = t

\* the callback chained by the method that makes the given external call
CallbackOf(action) ==
    IF action = "deposit_fees" THEN "on_donation_sent" ELSE "on_donations_withdrawn"

\* A chain leaves the scheduled ones in one way only: its own callback is
\* invoked for it, once, and takes exactly that chain out.
ResolvedByItsCallback ==
    (\/ last.method \in {"on_donation_sent", "on_donations_withdrawn"} /\ Resumed
     \/ \E p \in BagToSet(last.pre.promises) :
            CopiesIn(p, promises) < CopiesIn(p, last.pre.promises))
    => /\ Resumed
       /\ last.method = CallbackOf(Flow.action)
       /\ last.ok
       /\ last.amount = Flow.args
       /\ CopiesIn(Flow, last.pre.promises) >= 1
       /\ promises = last.pre.promises (-) SetToBag({Flow})

\* C17: every flow that Phase 1 starts is eventually resolved: under a fair
\* call scheduler each accepted send_donation is followed by exactly one
\* on_donation_sent invocation and each accepted withdraw_donations by exactly
\* one on_donations_withdrawn invocation; no chain stays scheduled forever, and
\* a chain ends in no other way (no cancel, no abort).
C17_EveryFlowResolved ==
    /\ []ResolvedByItsCallback
    /\ \A action \in {"deposit_fees", "transfer"}, t \in 0..MaxTime :
           Initiated(action, t) ~> ~Initiated(action, t)

\* a donation and a withdrawal were accepted, in different blocks, and the
\* callbacks of both have run
C17_Witness ==
    /\ last.method = "on_donations_withdrawn"
    /\ Resumed
    /\ Flow.created > 0
    /\ donations # {}
    /\ promises = EmptyBag

\* C18: initialization gates everything: while the contract is not
\* initialized, send_donation and withdraw_donations fail and schedule
\* nothing, and no invocation other than a successful init (the callbacks
\* with any promise result included) creates or changes the Owner, the
\* Balance or the donation log.
C18_InitializationGates ==
    ~InitializedIn(last.pre.storage) =>
        /\ last.method \in {"send_donation", "withdraw_donations"} =>
               /\ ~last.ok
               /\ last.error = "Contract must be initialized first."
        /\ ~(last.method = "init" /\ last.ok) =>
               /\ LedgerUnchanged
               /\ promises = last.pre.promises
               /\ ~is_initialized
        /\ ~is_initialized => donations = {} /\ promises = EmptyBag

\* a donation with a sufficient deposit is refused before init
C18_Witness ==
    /\ last.method = "send_donation"
    /\ last.amount >= MIN_DONATION_AMOUNT
    /\ ~last.ok
    /\ ~is_initialized

\* a callback chained after a successful call aborts before init
C18_WitnessCallback ==
    /\ last.method = "on_donation_sent"
    /\ last.results = <<1>>
    /\ ~last.ok
    /\ ~is_initialized

\* C19: conservation, with the callbacks run only by the call scheduler for
\* the contract's own chains: the Balance, the withdrawals in flight and the
\* withdrawals whose transfer succeeded add up to the total net amount
\* credited by Success donation callbacks.
C19_Conservation ==
    is_initialized => get_balance + InFlightTransfers + transferred = credited

\* part of the credited total is in the Balance, part in a withdrawal in flight
C19_Witness ==
    /\ is_initialized
    /\ get_balance > 0
    /\ InFlightTransfers > 0
    /\ get_balance + InFlightTransfers = credited

\* part of the credited total is in the Balance, part was transferred
C19_WitnessTransferred ==
    /\ is_initialized
    /\ get_balance > 0
    /\ transferred > 0

\* C20: solvency, with the callbacks run only by the call scheduler for the
\* contract's own chains: the Balance is at most what the contract holds from
\* donations, the deposits attached to send_donation less the fees forwarded
\* (retained) less the transfers to the Owner that have executed.  A transfer
\* in flight may or may not have executed; the bound holds with all of them
\* counted, and so with any of them.
C20_Solvency ==
    is_initialized =>
        /\ get_balance <= retained - transferred - InFlightTransfers
        /\ get_balance <= retained - transferred

\* a withdrawal passed amount <= Balance and its transfer is in flight, after
\* a donation whose fee-forward call failed
C20_Witness ==
    /\ is_initialized
    /\ last.method = "withdraw_donations"
    /\ last.ok
    /\ InFlightTransfers > 0
    /\ retained > credited
=============================================================================
